---- MODULE Spec2Model ----
(***************************************************************************)
(* A model of pynetcheck (src/netcheck.py): the probe-output parser        *)
(* (execute_ping), the sqlite-backed result store (maybe_create_tables and *)
(* the two inserts of ping_speedtest_save), the exporter                   *)
(* (dump_data_to_csv) and the scheduler (loop, run_once and the            *)
(* KeyboardInterrupt handler of __main__).                                 *)
(*                                                                         *)
(* Probe output is modelled as a sequence of tokens, each standing for a   *)
(* piece of text one of the four regular expressions can or cannot match;  *)
(* a number in the text is a numeral [whole, sep, tenths] (sep = "" for an *)
(* integer literal).  A formatted timestamp is the number of the           *)
(* formatting period the clock falls in; time passes while the loop sleeps  *)
(* and between two runs of the program.                                    *)
(***************************************************************************)
EXTENDS Integers, Sequences, FiniteSets, TLC

VARIABLES
    pc,            \* position of the process
    mode,          \* "loop" | "once" | "dump": --run-console-loop / --dump-csv
    platform,      \* sys.platform / _test_platform
    granularity,   \* clock ticks that share one formatted timestamp (timestamp_format)
    test_delay,    \* --test-delay, in clock ticks
    clock,         \* arrow.now()
    datetime,      \* the in-flight cycle's formatted timestamp
    data,          \* the probe's decoded standard output
    ping,          \* what execute_ping returned for the in-flight cycle
    sptest,        \* the throughput readings of the in-flight cycle
    schema,        \* the tables that exist in the database file
    pings,         \* committed rows of table pings, in rowid order
    speedtests,    \* committed rows of table speedtests, in rowid order
    tx,            \* rows inserted by the open transaction, not yet committed
    pings_csv,     \* lines of pings.csv (a line is a sequence of fields)
    speedtests_csv,\* lines of speedtests.csv
    err,           \* the exception that ended the process ("" for none)
    intAt,         \* the position at which KeyboardInterrupt was raised ("" for none)
    runs,          \* number of process starts so far
    pings0,        \* table pings as it was when this process started
    speedtests0    \* table speedtests as it was when this process started

vars == <<pc, mode, platform, granularity, test_delay, clock, datetime, data, ping,
          sptest, schema, pings, speedtests, tx, pings_csv, speedtests_csv, err,
          intAt, runs, pings0, speedtests0>>

(***************************************************************************)
(* Bounds of the model.                                                    *)
(***************************************************************************)
MaxClock == 2
MaxRuns == 2
MaxDelay == 1
MaxInitRows == 1
MaxTokens == 4

(***************************************************************************)
(* Probe output text.                                                      *)
(***************************************************************************)
IntNum(n) == [whole |-> n, sep |-> "", tenths |-> 0]
DecNum(n, s, t) == [whole |-> n, sep |-> s, tenths |-> t]

PctTok(num) == [k |-> "pct", label |-> "", nums |-> <<num>>]
ClauseTok(l, n) == [k |-> "clause", label |-> l, nums |-> <<IntNum(n)>>]
SummaryTok(mn, av, mx) == [k |-> "summary", label |-> "", nums |-> <<mn, av, mx>>]
JunkTok == [k |-> "junk", label |-> "", nums |-> <<>>]

NoMatch == 0

SupportedUnix == {"linux", "cygwin", "darwin"}
SupportedWin == {"win32"}

\* percent_lost_re.search(data): the index of the leftmost match, NoMatch for None
PercentLostSearch(plat, text) ==
    LET hits == {i \in DOMAIN text : text[i].k = "pct"}
    IN  IF hits = {} THEN NoMatch ELSE CHOOSE i \in hits : \A j \in hits : i <= j

\* group('percent_lost') of the match at token i
PercentLostGroup(plat, text, i) ==
    LET num == text[i].nums[1]
    IN  IF plat \in SupportedUnix
        THEN num
        ELSE IF num.sep = "" THEN IntNum(num.whole % 1000) ELSE IntNum(num.tenths)

\* whether three "<label> = <integer>ms" clauses, ", "-separated, start at token i
ThreeClausesAt(text, i) ==
    /\ i + 2 <= Len(text)
    /\ \A d \in 0..2 : text[i + d].k = "clause"

\* min_max_avg_re.search(data): the index of the leftmost match, NoMatch for None
TimingSearch(plat, text) ==
    LET hits == IF plat \in SupportedUnix
                THEN {i \in DOMAIN text : text[i].k = "summary"}
                ELSE {i \in DOMAIN text : ThreeClausesAt(text, i)}
    IN  IF hits = {} THEN NoMatch ELSE CHOOSE i \in hits : \A j \in hits : i <= j

\* the three captures read in the order of the Unix pattern (min, avg, max)
TimingGroupsSwapped(plat, text, i) ==
    IF plat \in SupportedUnix
    THEN [min |-> text[i].nums[1], avg |-> text[i].nums[2], max |-> text[i].nums[3]]
    ELSE [min |-> text[i].nums[1], avg |-> text[i + 1].nums[1],
          max |-> text[i + 2].nums[1]]

\* the named groups min, avg, max of the timing match at token i
TimingGroups(plat, text, i) ==
    IF plat \in SupportedUnix
    THEN [min |-> text[i].nums[1], avg |-> text[i].nums[2], max |-> text[i].nums[3]]
    ELSE [min |-> text[i].nums[1], max |-> text[i + 1].nums[1],
          avg |-> text[i + 2].nums[1]]

\* float(s) raises ValueError for a decimal comma
FloatOk(num) == num.sep # ","

\* float(s), in tenths
Float(num) == num.whole * 10 + num.tenths

\* int(round(x)) for x in tenths: Python 3 rounds a tie to the even integer
Round(x) ==
    LET q == x \div 10
        r == x % 10
    IN  IF r < 5 THEN q
        ELSE IF r > 5 THEN q + 1
        ELSE IF q % 2 = 0 THEN q ELSE q + 1

NoPing == [percent_lost |-> 0, min_ms |-> 0, average_ms |-> 0, max_ms |-> 0]

Raise(e) == [ok |-> FALSE, err |-> e, res |-> NoPing]
Return(r) == [ok |-> TRUE, err |-> "", res |-> r]

\* execute_ping from the two searches on: returns or raises
ExecutePing(plat, text) ==
    LET pm == PercentLostSearch(plat, text)
        tm == TimingSearch(plat, text)
    IN  IF pm = NoMatch THEN Raise("AttributeError")
        ELSE IF ~FloatOk(PercentLostGroup(plat, text, pm)) THEN Raise("ValueError")
        ELSE IF tm = NoMatch THEN Raise("AttributeError")
        ELSE LET g == TimingGroups(plat, text, tm)
             IN  IF ~FloatOk(g.min) \/ ~FloatOk(g.avg) \/ ~FloatOk(g.max)
                 THEN Raise("ValueError")
                 ELSE Return([percent_lost |-> Round(Float(PercentLostGroup(plat, text, pm))),
                              min_ms |-> Round(Float(g.min)),
                              average_ms |-> Round(Float(g.avg)),
                              max_ms |-> Round(Float(g.max))])

(***************************************************************************)
(* Configuration.                                                          *)
(***************************************************************************)
\* --ping-count
PingCount == 25

\* arrow.now(timezone).format(timestamp_format)
Format(t, g) == t \div g

\* the formats of the model: one that tells every tick apart (the default, with
\* seconds) and one too coarse to tell any two ticks of a run apart
Granularities == {1, MaxClock + 1}

(***************************************************************************)
(* The throughput collaborator.                                            *)
(***************************************************************************)
\* sponsors and names of the servers get_best_server may select, as pieces of text
Sponsors == {<<"Acme">>, <<"JSC ", "\"", "Ufanet", "\"">>}
ServerNames == {<<"Oslo">>}

\* bits/s the collaborator may measure
BitRates == {12345678}

\* round(bps / 1000000, 2), in hundredths of a megabit/s (no tie in BitRates)
Mbps(bps) == (bps + 5000) \div 10000

\* f'{sponsor} ({name})'
ServerLabel(sponsor, name) == sponsor \o <<" (">> \o name \o <<")">>

NoSptest == [ping |-> 0, download_mbps |-> 0, upload_mbps |-> 0, server |-> <<>>]

(***************************************************************************)
(* The store: two tables keyed by date, written through one connection.    *)
(***************************************************************************)
Tables == {"pings", "speedtests"}

EmptyTx == [pings |-> <<>>, speedtests |-> <<>>]

PingRow(dt, p) == <<dt, p.percent_lost, PingCount, p.min_ms, p.max_ms, p.average_ms>>
SpeedRow(dt, s) == <<dt, s.ping, s.download_mbps, s.upload_mbps, s.server>>

\* the primary keys of a table
Keys(rows) == {rows[i][1] : i \in DOMAIN rows}

\* CREATE TABLE (no IF NOT EXISTS semantics kept): the table is made anew
CreateTableAnew(db, t) ==
    [db EXCEPT !.schema = db.schema \cup {t}, ![t] = <<>>]

\* CREATE TABLE IF NOT EXISTS t
CreateTableIfNotExists(db, t) ==
    IF t \in db.schema THEN db ELSE [db EXCEPT !.schema = db.schema \cup {t}, ![t] = <<>>]

\* maybe_create_tables
MaybeCreateTables(db) ==
    CreateTableIfNotExists(CreateTableIfNotExists(db, "pings"), "speedtests")

\* a table without its primary key accepts any row
NoPrimaryKey(rows, pending, row) == FALSE

\* PRIMARY KEY(date): whether inserting row fails with "UNIQUE constraint failed"
DuplicateKey(rows, pending, row) == row[1] \in Keys(rows) \cup Keys(pending)

\* Connection.__exit__ without an exception: COMMIT
Commit(db) ==
    [db EXCEPT !.pings = db.pings \o db.tx.pings,
               !.speedtests = db.speedtests \o db.tx.speedtests,
               !.tx = EmptyTx]

\* each statement committed as it is executed: nothing is left to undo
RollbackNothing(db) == Commit(db)

\* Connection.__exit__ with an exception: ROLLBACK
Rollback(db) == [db EXCEPT !.tx = EmptyTx]

\* the database as one value
Db == [schema |-> schema, pings |-> pings, speedtests |-> speedtests, tx |-> tx]

SetDb(db) ==
    /\ schema' = db.schema
    /\ pings' = db.pings
    /\ speedtests' = db.speedtests
    /\ tx' = db.tx

(***************************************************************************)
(* The exporter.                                                           *)
(***************************************************************************)
PingsHeader == <<<<"Date/time">>, <<"Percent_Lost">>, <<"Packets_Sent">>, <<"Min">>,
                 <<"Max">>, <<"Avg">>>>
SpeedtestsHeader == <<<<"Date/time">>, <<"Ping">>, <<"Download">>, <<"Upload">>,
                      <<"Server">>>>

\* the delimiter, the quotechar and the characters of the line terminator of the
\* dialect 'pretty'
SpecialChars == {"\t", "\"", "\r", "\n"}

\* QUOTE_NONE and no escapechar: such a field makes the writer raise csv.Error
NeedsEscape(field) == \E i \in DOMAIN field : field[i] \in SpecialChars

\* str() of a number (a float is kept in hundredths)
Str(n) == <<ToString(n)>>

PingLine(r) == <<Str(r[1]), Str(r[2]), Str(r[3]), Str(r[4]), Str(r[5]), Str(r[6])>>
SpeedLine(r) == <<Str(r[1]), Str(r[2]), Str(r[3]), Str(r[4]), r[5]>>

PingLines(rows) == [i \in DOMAIN rows |-> PingLine(rows[i])]
SpeedLines(rows) == [i \in DOMAIN rows |-> SpeedLine(rows[i])]

\* writer.writerows(lines): the lines written before the first that cannot be
WriteRows(lines) ==
    LET bad == {i \in DOMAIN lines : \E f \in DOMAIN lines[i] : NeedsEscape(lines[i][f])}
        stop == IF bad = {} THEN Len(lines) + 1
                ELSE CHOOSE i \in bad : \A j \in bad : i <= j
    IN  [ok |-> bad = {}, lines |-> SubSeq(lines, 1, stop - 1)]

\* dump_data_to_csv: the two files it leaves and the exception, if any
DumpDataToCsv(db, oldSpeedtests) ==
    IF "pings" \notin db.schema
    THEN [err |-> "OperationalError", pings_csv |-> <<PingsHeader>>,
          speedtests_csv |-> oldSpeedtests]
    ELSE LET pw == WriteRows(PingLines(db.pings \o db.tx.pings))
         IN  IF ~pw.ok
             THEN [err |-> "csv.Error", pings_csv |-> <<PingsHeader>> \o pw.lines,
                   speedtests_csv |-> oldSpeedtests]
             ELSE IF "speedtests" \notin db.schema
             THEN [err |-> "OperationalError", pings_csv |-> <<PingsHeader>> \o pw.lines,
                   speedtests_csv |-> <<SpeedtestsHeader>>]
             ELSE LET sw == WriteRows(SpeedLines(db.speedtests \o db.tx.speedtests))
                  IN  [err |-> IF sw.ok THEN "" ELSE "csv.Error",
                       pings_csv |-> <<PingsHeader>> \o pw.lines,
                       speedtests_csv |-> <<SpeedtestsHeader>> \o sw.lines]

(***************************************************************************)
(* Inputs of the model.                                                    *)
(***************************************************************************)
Platforms == {"linux", "win32", "sunos"}
Modes == {"loop", "once", "dump"}

\* probe output of the scheduler's runs: a Unix-like ping's, a Windows ping's and
\* one with no statistics at all (the host did not resolve)
UnixText == <<JunkTok, PctTok(DecNum(0, ".", 0)),
              SummaryTok(DecNum(1, ".", 0), DecNum(2, ".", 5), DecNum(4, ".", 0))>>
WinText == <<JunkTok, PctTok(IntNum(5)), ClauseTok("Minimum", 1), ClauseTok("Maximum", 2),
             ClauseTok("Average", 1)>>
ProbeTexts == {UnixText, WinText, <<JunkTok>>}

\* rows a database file may already hold when the process starts: those of
\* earlier cycles at the ticks 0, 1, ..., each table holding some first of them
InitPing == [percent_lost |-> 0, min_ms |-> 1, average_ms |-> 1, max_ms |-> 1]
InitSptest ==
    [ping |-> 1, download_mbps |-> 1, upload_mbps |-> 1,
     server |-> ServerLabel(<<"Acme">>, <<"Oslo">>)]

InitStores ==
    {[schema |-> {}, pings |-> <<>>, speedtests |-> <<>>, tx |-> EmptyTx]}
    \cup
    {[schema |-> Tables,
      pings |-> [i \in 1..n |-> PingRow(i - 1, InitPing)],
      speedtests |-> [i \in 1..m |-> SpeedRow(i - 1, InitSptest)],
      tx |-> EmptyTx] : n \in 0..MaxInitRows, m \in 0..MaxInitRows}

EmptyStore == [schema |-> {}, pings |-> <<>>, speedtests |-> <<>>, tx |-> EmptyTx]

(***************************************************************************)
(* The process.                                                            *)
(***************************************************************************)
\* where a KeyboardInterrupt reaches the handler of __main__
InTry == {"Idle", "Probing", "AwaitingThroughput", "Persisting", "Committing", "Sleeping"}

\* the positions inside "with self.db:"
InWith == {"Persisting", "Committing"}

Terminal == {"Done", "Failed", "Exited"}

\* every caller of ping_speedtest_save sleeps and goes round again
AfterCycleAlwaysSleeps(m) == "Sleeping"

\* the loop goes round without sleeping
AfterCycleNoSleep(m) == IF m = "loop" THEN "Probing" ELSE "Done"

\* loop sleeps after a cycle, run_once returns
AfterCycle(m) == IF m = "loop" THEN "Sleeping" ELSE "Done"

InitWith(stores) ==
    /\ pc = "Start"
    /\ mode \in Modes
    /\ platform \in Platforms
    /\ granularity \in Granularities
    /\ test_delay \in 0..MaxDelay
    /\ clock = 0
    /\ datetime = 0
    /\ data = <<>>
    /\ ping = NoPing
    /\ sptest = NoSptest
    /\ \E db \in stores :
          /\ schema = db.schema
          /\ pings = db.pings
          /\ speedtests = db.speedtests
          /\ tx = db.tx
          /\ pings0 = db.pings
          /\ speedtests0 = db.speedtests
    /\ pings_csv = <<>>
    /\ speedtests_csv = <<>>
    /\ err = ""
    /\ intAt = ""
    /\ runs = 1

Init == InitWith(InitStores)

InitEmpty == InitWith({EmptyStore})

\* PyNetCheck.__init__ and the dispatch of __main__
Construct ==
    /\ pc = "Start"
    /\ IF platform \in SupportedUnix \cup SupportedWin
       THEN pc' = "Idle" /\ err' = ""
       ELSE pc' = "Failed" /\ err' = "Unsupported Platform."
    /\ UNCHANGED <<mode, platform, granularity, test_delay, clock, datetime, data, ping,
                   sptest, schema, pings, speedtests, tx, pings_csv, speedtests_csv,
                   intAt, runs, pings0, speedtests0>>

\* loop / run_once up to the first statement of ping_speedtest_save
CreateTables ==
    /\ pc = "Idle"
    /\ mode \in {"loop", "once"}
    /\ SetDb(MaybeCreateTables(Db))
    /\ pc' = "Probing"
    /\ UNCHANGED <<mode, platform, granularity, test_delay, clock, datetime, data, ping,
                   sptest, pings_csv, speedtests_csv, err, intAt, runs, pings0,
                   speedtests0>>

\* ping_speedtest_save: the timestamp and execute_ping
Probe ==
    /\ pc = "Probing"
    /\ datetime' = Format(clock, granularity)
    /\ \E text \in ProbeTexts :
          LET r == ExecutePing(platform, text)
          IN  IF r.ok
              THEN pc' = "AwaitingThroughput" /\ ping' = r.res /\ err' = ""
              ELSE pc' = "Failed" /\ ping' = ping /\ err' = r.err
    /\ UNCHANGED <<mode, platform, granularity, test_delay, clock, data, sptest, schema,
                   pings, speedtests, tx, pings_csv, speedtests_csv, intAt, runs, pings0,
                   speedtests0>>

\* ping_speedtest_save: the throughput collaborator returns its readings or raises
Throughput ==
    /\ pc = "AwaitingThroughput"
    /\ \/ /\ \E sp \in Sponsors, nm \in ServerNames, dl \in BitRates, ul \in BitRates :
               sptest' = [ping |-> 1, download_mbps |-> Mbps(dl), upload_mbps |-> Mbps(ul),
                          server |-> ServerLabel(sp, nm)]
          /\ pc' = "Persisting"
          /\ err' = ""
       \/ /\ sptest' = sptest
          /\ pc' = "Failed"
          /\ err' = "SpeedtestException"
    /\ UNCHANGED <<mode, platform, granularity, test_delay, clock, datetime, data, ping,
                   schema, pings, speedtests, tx, pings_csv, speedtests_csv, intAt, runs,
                   pings0, speedtests0>>

\* ping_speedtest_save: "with self.db:" is entered and the first INSERT executed
InsertPing ==
    /\ pc = "Persisting"
    /\ LET row == PingRow(datetime, ping)
       IN  IF DuplicateKey(pings, tx.pings, row)
           THEN /\ SetDb(Rollback(Db))
                /\ pc' = "Failed"
                /\ err' = "IntegrityError: pings.date"
           ELSE /\ SetDb([Db EXCEPT !.tx.pings = Append(tx.pings, row)])
                /\ pc' = "Committing"
                /\ err' = ""
    /\ UNCHANGED <<mode, platform, granularity, test_delay, clock, datetime, data, ping,
                   sptest, pings_csv, speedtests_csv, intAt, runs, pings0, speedtests0>>

\* ping_speedtest_save: the second INSERT and the end of "with self.db:"
InsertSpeedtest ==
    /\ pc = "Committing"
    /\ LET row == SpeedRow(datetime, sptest)
       IN  IF DuplicateKey(speedtests, tx.speedtests, row)
           THEN /\ SetDb(Rollback(Db))
                /\ pc' = "Failed"
                /\ err' = "IntegrityError: speedtests.date"
           ELSE /\ SetDb(Commit([Db EXCEPT !.tx.speedtests = Append(tx.speedtests, row)]))
                /\ pc' = AfterCycle(mode)
                /\ err' = ""
    /\ UNCHANGED <<mode, platform, granularity, test_delay, clock, datetime, data, ping,
                   sptest, pings_csv, speedtests_csv, intAt, runs, pings0, speedtests0>>

\* loop: time.sleep(self.test_delay * 60), then the next turn of "while True"
Sleep ==
    /\ pc = "Sleeping"
    /\ clock + test_delay <= MaxClock
    /\ clock' = clock + test_delay
    /\ pc' = "Probing"
    /\ UNCHANGED <<mode, platform, granularity, test_delay, datetime, data, ping, sptest,
                   schema, pings, speedtests, tx, pings_csv, speedtests_csv, err, intAt,
                   runs, pings0, speedtests0>>

\* __main__ --dump-csv
DumpCsv ==
    /\ pc = "Idle"
    /\ mode = "dump"
    /\ LET d == DumpDataToCsv(Db, speedtests_csv)
       IN  /\ pings_csv' = d.pings_csv
           /\ speedtests_csv' = d.speedtests_csv
           /\ err' = d.err
           /\ pc' = IF d.err = "" THEN "Done" ELSE "Failed"
    /\ UNCHANGED <<mode, platform, granularity, test_delay, clock, datetime, data, ping,
                   sptest, schema, pings, speedtests, tx, intAt, runs, pings0, speedtests0>>

\* KeyboardInterrupt is raised inside the try of __main__; an open "with self.db:"
\* is left through __exit__
Interrupt ==
    /\ pc \in InTry
    /\ intAt' = pc
    /\ pc' = "Interrupted"
    /\ IF pc \in InWith THEN SetDb(Rollback(Db)) ELSE SetDb(Db)
    /\ UNCHANGED <<mode, platform, granularity, test_delay, clock, datetime, data, ping,
                   sptest, pings_csv, speedtests_csv, err, runs, pings0, speedtests0>>

\* __main__: except KeyboardInterrupt
HandleInterrupt ==
    /\ pc = "Interrupted"
    /\ LET d == DumpDataToCsv(Db, speedtests_csv)
       IN  /\ pings_csv' = d.pings_csv
           /\ speedtests_csv' = d.speedtests_csv
           /\ err' = d.err
           /\ pc' = IF d.err = "" THEN "Exited" ELSE "Failed"
    /\ UNCHANGED <<mode, platform, granularity, test_delay, clock, datetime, data, ping,
                   sptest, schema, pings, speedtests, tx, intAt, runs, pings0, speedtests0>>

\* the program is started again on the same database file and directory
Restart ==
    /\ pc \in Terminal
    /\ runs < MaxRuns
    /\ runs' = runs + 1
    /\ pc' = "Start"
    /\ mode' \in Modes
    /\ \E d \in 0..1 : clock + d <= MaxClock /\ clock' = clock + d
    /\ datetime' = 0
    /\ ping' = NoPing
    /\ sptest' = NoSptest
    /\ err' = ""
    /\ intAt' = ""
    /\ pings0' = pings
    /\ speedtests0' = speedtests
    /\ UNCHANGED <<platform, granularity, test_delay, data, schema, pings, speedtests, tx,
                   pings_csv, speedtests_csv>>

Next ==
    \/ Construct
    \/ CreateTables
    \/ Probe
    \/ Throughput
    \/ InsertPing
    \/ InsertSpeedtest
    \/ Sleep
    \/ DumpCsv
    \/ Interrupt
    \/ HandleInterrupt
    \/ Restart

Spec == Init /\ [][Next]_vars

SpecEmpty == InitEmpty /\ [][Next]_vars

(***************************************************************************)
(* The parser on its own, as tests.py drives it: execute_ping on given     *)
(* text, for a given platform.                                             *)
(***************************************************************************)
PctNumerals == {IntNum(5), DecNum(2, ".", 5), DecNum(0, ",", 5)}
ClauseLabels == {"Minimum", "Maximum", "Average"}
ClauseValues == {10, 20}

Tokens ==
    {JunkTok, SummaryTok(DecNum(1, ".", 0), DecNum(2, ".", 5), DecNum(4, ".", 0))}
    \cup {PctTok(n) : n \in PctNumerals}
    \cup {ClauseTok(l, v) : l \in ClauseLabels, v \in ClauseValues}

Texts == UNION {[1..n -> Tokens] : n \in 0..MaxTokens}

InitParse ==
    /\ pc = "Test"
    /\ mode = "once"
    /\ platform \in {"linux", "win32"}
    /\ granularity = 1
    /\ test_delay = 0
    /\ clock = 0
    /\ datetime = 0
    /\ data \in Texts
    /\ ping = NoPing
    /\ sptest = NoSptest
    /\ schema = {}
    /\ pings = <<>>
    /\ speedtests = <<>>
    /\ tx = EmptyTx
    /\ pings0 = <<>>
    /\ speedtests0 = <<>>
    /\ pings_csv = <<>>
    /\ speedtests_csv = <<>>
    /\ err = ""
    /\ intAt = ""
    /\ runs = 1

\* TestPingParsing.check_platform: execute_ping(_test_data=...)
TestExecutePing ==
    /\ pc = "Test"
    /\ LET r == ExecutePing(platform, data)
       IN  IF r.ok
           THEN pc' = "Returned" /\ ping' = r.res /\ err' = ""
           ELSE pc' = "Raised" /\ ping' = ping /\ err' = r.err
    /\ UNCHANGED <<mode, platform, granularity, test_delay, clock, datetime, data, sptest,
                   schema, pings, speedtests, tx, pings_csv, speedtests_csv, intAt, runs,
                   pings0, speedtests0>>

NextParse == TestExecutePing

SpecParse == InitParse /\ [][NextParse]_vars

(***************************************************************************)
(* Properties.                                                             *)
(***************************************************************************)
\* the lines a complete export of a table holds
PingsExport == <<PingsHeader>> \o PingLines(pings)
SpeedtestsExport == <<SpeedtestsHeader>> \o SpeedLines(speedtests)

\* no key twice in a table
UniqueKeys(rows) == Cardinality(Keys(rows)) = Len(rows)

\* the phases of a cycle (probing, awaiting throughput, persisting, sleeping)
CyclePhases == {"Probing", "AwaitingThroughput", "Persisting", "Committing", "Sleeping"}

\* C1: when the second insert of a cycle (into speedtests) fails, the failure ends
\* ping_speedtest_save with an exception and neither table holds a row of that
\* cycle afterwards: the first insert is undone with the transaction.
C1_SecondInsertFailureLeavesNoRow ==
    [][(pc = "Committing" /\ datetime \in Keys(speedtests) /\ pc' # "Interrupted")
         => /\ pc' = "Failed"
            /\ err' # ""
            /\ tx' = EmptyTx
            /\ datetime \notin Keys(pings')
            /\ pings' = pings
            /\ speedtests' = speedtests]_vars

C1_Witness ==
    /\ pc = "Failed"
    /\ err = "IntegrityError: speedtests.date"
    /\ datetime \in Keys(speedtests)
    /\ datetime \notin Keys(pings)

\* C2: in either table, inserting a row whose timestamp is already stored fails
\* with the duplicate-key error and leaves the stored rows of that table as they
\* were.
C2_DuplicateInsertFails ==
    [][/\ (pc = "Persisting" /\ datetime \in Keys(pings) /\ pc' # "Interrupted")
            => (pc' = "Failed" /\ err' = "IntegrityError: pings.date" /\ pings' = pings)
       /\ (pc = "Committing" /\ datetime \in Keys(speedtests) /\ pc' # "Interrupted")
            => (pc' = "Failed" /\ err' = "IntegrityError: speedtests.date"
                /\ speedtests' = speedtests)]_vars

C2_Witness ==
    /\ pc = "Failed"
    /\ err = "IntegrityError: pings.date"
    /\ \E i \in DOMAIN pings : pings[i][1] = datetime /\ pings[i] # PingRow(datetime, ping)

\* C3: once a KeyboardInterrupt raised during a cycle phase has been handled, the
\* process has exited after a complete export: each file holds its header and
\* exactly the committed rows, and nothing of the interrupted transaction.
C3_InterruptExportsCommittedRows ==
    (intAt \in CyclePhases /\ pc \in Terminal)
        => /\ pc = "Exited"
           /\ tx = EmptyTx
           /\ pings_csv = PingsExport
           /\ speedtests_csv = SpeedtestsExport

\* C4: run_once never sleeps, and when it has returned the store holds the rows
\* it held when the process started followed by exactly one new row per table.
C4_RunOnceAddsOneRowEach ==
    /\ mode = "once" => pc # "Sleeping"
    /\ (mode = "once" /\ pc = "Done")
         => /\ pings = Append(pings0, PingRow(datetime, ping))
            /\ speedtests = Append(speedtests0, SpeedRow(datetime, sptest))

C4_Witness ==
    /\ mode = "once"
    /\ pc = "Done"
    /\ pings0 # <<>>
    /\ speedtests0 # <<>>

\* what the parser is given: both patterns of the win32 dialect match
WinMatches ==
    /\ platform = "win32"
    /\ PercentLostSearch(platform, data) # NoMatch
    /\ TimingSearch(platform, data) # NoMatch

\* the clause of the timing match at offset d (0, 1, 2)
MatchedClause(d) == data[TimingSearch(platform, data) + d]

\* valid Dialect B output: the three matched clauses carry the three labels
ValidDialectB ==
    /\ WinMatches
    /\ {MatchedClause(d).label : d \in 0..2} = ClauseLabels

\* the value the matched clauses attach to a label
ValueOfLabel(l) ==
    LET d == CHOOSE e \in 0..2 : MatchedClause(e).label = l
    IN  MatchedClause(d).nums[1].whole

\* C5 as stated: on valid win32 output execute_ping returns the values attached to
\* the labels minimum, maximum and average, whatever the order of the clauses.
C5_ByLabel ==
    (pc # "Test" /\ ValidDialectB)
        => /\ pc = "Returned"
           /\ ping.min_ms = ValueOfLabel("Minimum")
           /\ ping.max_ms = ValueOfLabel("Maximum")
           /\ ping.average_ms = ValueOfLabel("Average")

\* C5 as amended: on win32 output that both patterns match, execute_ping returns
\* as min_ms, max_ms and average_ms the values of the first, second and third
\* clause of the leftmost match, whatever their labels; these are the values
\* attached to the labels exactly when no clause is out of the order minimum,
\* maximum, average.
C5_ByPosition ==
    (pc # "Test" /\ WinMatches)
        => /\ pc = "Returned"
           /\ ping.min_ms = MatchedClause(0).nums[1].whole
           /\ ping.max_ms = MatchedClause(1).nums[1].whole
           /\ ping.average_ms = MatchedClause(2).nums[1].whole
           /\ (<<MatchedClause(0).label, MatchedClause(1).label, MatchedClause(2).label>>
                 = <<"Minimum", "Maximum", "Average">>)
                => /\ ping.min_ms = ValueOfLabel("Minimum")
                   /\ ping.max_ms = ValueOfLabel("Maximum")
                   /\ ping.average_ms = ValueOfLabel("Average")

C5_Witness ==
    /\ pc = "Returned"
    /\ ValidDialectB
    /\ MatchedClause(0).label = "Average"
    /\ MatchedClause(0).nums[1].whole # MatchedClause(2).nums[1].whole
    /\ ping.min_ms = MatchedClause(0).nums[1].whole

\* C6: when the percent-loss pattern or the timing pattern does not match the
\* text, execute_ping raises the distinct error "unparseable probe output" and
\* returns nothing.
C6_UnparseableRaisesDistinctError ==
    (/\ pc \in {"Returned", "Raised"}
     /\ \/ PercentLostSearch(platform, data) = NoMatch
        \/ TimingSearch(platform, data) = NoMatch)
        => /\ pc = "Raised"
           /\ err = "unparseable probe output"
           /\ ping = NoPing

\* C7: whenever dump_data_to_csv runs on a store with both tables, it ends without
\* an error and each file holds the header line followed by one line per stored
\* row in insertion order (N rows, N + 1 lines; an empty table, the header alone).
C7_ExportHasHeaderAndEveryRow ==
    [][(/\ schema = Tables
        /\ \/ pc = "Interrupted"
           \/ (pc = "Idle" /\ mode = "dump" /\ pc' # "Interrupted"))
         => /\ err' = ""
            /\ pc' \in {"Done", "Exited"}
            /\ pings_csv' = PingsExport
            /\ Len(pings_csv') = Len(pings) + 1
            /\ speedtests_csv' = SpeedtestsExport
            /\ Len(speedtests_csv') = Len(speedtests) + 1]_vars

\* C8: maybe_create_tables raises nothing, leaves both tables in the schema, and
\* leaves every row of a table that already existed as it was.
C8_CreateTablesIdempotent ==
    [][(pc = "Idle" /\ mode # "dump" /\ pc' # "Interrupted")
         => /\ pc' = "Probing"
            /\ err' = ""
            /\ schema' = Tables
            /\ tx' = tx
            /\ pings' = pings
            /\ speedtests' = speedtests
            /\ MaybeCreateTables(MaybeCreateTables(Db)) = MaybeCreateTables(Db)
            /\ schema = Tables => MaybeCreateTables(Db) = Db]_vars

C8_Witness ==
    /\ pc = "Probing"
    /\ runs > 1
    /\ pings = pings0
    /\ speedtests = speedtests0
    /\ pings # <<>>
    /\ speedtests # <<>>

\* C9: in loop mode a cycle goes probe, throughput, persist (both rows, one
\* commit), sleep for test_delay, and only then the next probe; the loop never
\* reaches Done.
C9_LoopPhaseOrder ==
    [][(mode = "loop" /\ mode' = "loop")
         => /\ pc' = "Probing" => pc \in {"Idle", "Sleeping"}
            /\ pc' = "AwaitingThroughput" => pc = "Probing"
            /\ pc' = "Persisting" => pc = "AwaitingThroughput"
            /\ pc' = "Committing" => pc = "Persisting"
            /\ pc' = "Sleeping"
                 => /\ pc = "Committing"
                    /\ tx' = EmptyTx
                    /\ pings' = Append(pings, PingRow(datetime, ping))
                    /\ speedtests' = Append(speedtests, SpeedRow(datetime, sptest))
            /\ (pc = "Committing" /\ pc' \notin {"Failed", "Interrupted"})
                 => pc' = "Sleeping"
            /\ (pc = "Sleeping" /\ pc' # "Interrupted")
                 => (pc' = "Probing" /\ clock' = clock + test_delay
                     /\ pings' = pings /\ speedtests' = speedtests)
            /\ pc' # "Done"]_vars

C9_Witness ==
    /\ mode = "loop"
    /\ pc = "Probing"
    /\ Len(pings) > Len(pings0)
    /\ clock > 0

\* C10: from an empty store, the committed tables always hold the same
\* timestamps, each exactly once per table.
C10_TablesJoinOneToOne ==
    /\ Keys(pings) = Keys(speedtests)
    /\ UniqueKeys(pings)
    /\ UniqueKeys(speedtests)

C10_Witness ==
    /\ pc = "Interrupted"
    /\ intAt = "Committing"
    /\ pings # <<>>

====
